---- MODULE Spec2Model ----
(***************************************************************************)
(* A model of callus-expo: the update-leaderboard edge function (scoring,  *)
(* per-user reduction, ranking, delete-then-insert publish) over the       *)
(* videos and leaderboard tables of the data store.                        *)
(***************************************************************************)
EXTENDS Integers, Sequences, FiniteSets, TLC

(***************************************************************************)
(* Natural numbers of any size, as little-endian sequences of limbs in     *)
(* base 2^15 with no leading zero limb (<<>> is 0).  They carry the 53-bit *)
(* significands of JavaScript numbers and their exact products.            *)
(***************************************************************************)
Base == 2^15

TailOrEmpty(a) == IF a = <<>> THEN <<>> ELSE Tail(a)

Limb1(a) == IF a = <<>> THEN 0 ELSE a[1]

RECURSIVE BNorm(_)
BNorm(a) ==
    IF a = <<>> THEN <<>>
    ELSE IF a[Len(a)] = 0 THEN BNorm(SubSeq(a, 1, Len(a) - 1))
    ELSE a

RECURSIVE BFromInt(_)
BFromInt(n) == IF n = 0 THEN <<>> ELSE <<n % Base>> \o BFromInt(n \div Base)

RECURSIVE BToInt(_)
BToInt(a) == IF a = <<>> THEN 0 ELSE a[1] + Base * BToInt(Tail(a))

RECURSIVE BAddC(_, _, _)
BAddC(a, b, c) ==
    IF a = <<>> /\ b = <<>>
    THEN (IF c = 0 THEN <<>> ELSE <<c>>)
    ELSE LET s == Limb1(a) + Limb1(b) + c
         IN  <<s % Base>> \o BAddC(TailOrEmpty(a), TailOrEmpty(b), s \div Base)

BAdd(a, b) == BAddC(a, b, 0)

\* a - b for a >= b
RECURSIVE BSubB(_, _, _)
BSubB(a, b, borrow) ==
    IF a = <<>> THEN <<>>
    ELSE LET d == a[1] - Limb1(b) - borrow
         IN  IF d < 0
             THEN <<d + Base>> \o BSubB(Tail(a), TailOrEmpty(b), 1)
             ELSE <<d>> \o BSubB(Tail(a), TailOrEmpty(b), 0)

BSub(a, b) == BNorm(BSubB(a, b, 0))

\* -1, 0, 1 as a < b, a = b, a > b (both normalised)
RECURSIVE BCmp(_, _)
BCmp(a, b) ==
    IF Len(a) # Len(b) THEN (IF Len(a) < Len(b) THEN -1 ELSE 1)
    ELSE IF a = <<>> THEN 0
    ELSE LET n == Len(a)
         IN  IF a[n] # b[n] THEN (IF a[n] < b[n] THEN -1 ELSE 1)
             ELSE BCmp(SubSeq(a, 1, n - 1), SubSeq(b, 1, n - 1))

\* a * s for 0 <= s < Base
RECURSIVE BMulSmallC(_, _, _)
BMulSmallC(a, s, c) ==
    IF a = <<>> THEN (IF c = 0 THEN <<>> ELSE <<c>>)
    ELSE LET p == a[1] * s + c
         IN  <<p % Base>> \o BMulSmallC(Tail(a), s, p \div Base)

BMulSmall(a, s) == BNorm(BMulSmallC(a, s, 0))

RECURSIVE BMulR(_, _)
BMulR(a, b) ==
    IF b = <<>> THEN <<>>
    ELSE BAdd(BMulSmall(a, b[1]), <<0>> \o BMulR(a, Tail(b)))

BMul(a, b) == BNorm(BMulR(a, b))

\* quotient and remainder of a by s, 0 < s < Base
RECURSIVE BDivSmallR(_, _)
BDivSmallR(a, s) ==
    IF a = <<>> THEN [q |-> <<>>, r |-> 0]
    ELSE LET hi  == BDivSmallR(Tail(a), s)
             cur == hi.r * Base + a[1]
         IN  [q |-> <<cur \div s>> \o hi.q, r |-> cur % s]

BDivSmall(a, s) ==
    LET d == BDivSmallR(a, s) IN [q |-> BNorm(d.q), r |-> d.r]

Zeros(n) == [i \in 1..n |-> 0]

\* a * 2^k
BShl(a, k) == BNorm(Zeros(k \div 15) \o BMulSmall(a, 2^(k % 15)))

\* floor(a / 2^k)
BShr(a, k) ==
    IF k \div 15 >= Len(a) THEN <<>>
    ELSE BDivSmall(SubSeq(a, (k \div 15) + 1, Len(a)), 2^(k % 15)).q

RECURSIVE IntBitLen(_)
IntBitLen(n) == IF n = 0 THEN 0 ELSE 1 + IntBitLen(n \div 2)

BBitLen(a) == IF a = <<>> THEN 0 ELSE 15 * (Len(a) - 1) + IntBitLen(a[Len(a)])

BIsOdd(a) == a # <<>> /\ a[1] % 2 = 1

(***************************************************************************)
(* JavaScript numbers (IEEE 754 binary64, round to nearest, ties to even). *)
(* A number is [neg, m, e], the value (-1)^neg * m * 2^e with m of at most *)
(* MantissaBits bits.  The values of a leaderboard run are far from the    *)
(* subnormal and the overflow range, so e is unbounded here.               *)
(***************************************************************************)
MantissaBits == 53

DZero == [neg |-> FALSE, m |-> <<>>, e |-> 0]

\* The number nearest to m * 2^e (plus, when sticky, a positive amount below
\* 2^e): the rounding every arithmetic operation ends with.
DRound(neg, m, e, sticky) ==
    LET n == BBitLen(m)
        k == n - MantissaBits
    IN  IF m = <<>> THEN DZero
        ELSE IF k <= 0 THEN [neg |-> neg, m |-> m, e |-> e]
        ELSE LET q    == BShr(m, k)
                 rem  == BSub(m, BShl(q, k))
                 half == BShl(<<1>>, k - 1)
                 c    == BCmp(rem, half)
                 up   == \/ c = 1
                         \/ c = 0 /\ sticky
                         \/ c = 0 /\ ~sticky /\ BIsOdd(q)
             IN  [neg |-> neg, m |-> IF up THEN BAdd(q, <<1>>) ELSE q, e |-> e + k]

Abs(n) == IF n < 0 THEN -n ELSE n

\* an integer-valued number (exact)
DFromInt(n) == [neg |-> n < 0, m |-> BFromInt(Abs(n)), e |-> 0]

\* a / b for integer-valued a and 0 < b < Base: the quotient to 70 binary
\* places, the rest of it as the sticky bit, then rounded
DDivInt(a, b) ==
    LET d == BDivSmall(BShl(BFromInt(Abs(a)), 70), b)
    IN  IF a = 0 THEN DZero ELSE DRound(a < 0, d.q, -70, d.r # 0)

DMul(x, y) ==
    IF x.m = <<>> \/ y.m = <<>> THEN DZero
    ELSE DRound(x.neg # y.neg, BMul(x.m, y.m), x.e + y.e, FALSE)

DAdd(x, y) ==
    LET e  == IF x.e < y.e THEN x.e ELSE y.e
        mx == BShl(x.m, x.e - e)
        my == BShl(y.m, y.e - e)
    IN  IF x.m = <<>> THEN y
        ELSE IF y.m = <<>> THEN x
        ELSE IF x.neg = y.neg THEN DRound(x.neg, BAdd(mx, my), e, FALSE)
        ELSE IF BCmp(mx, my) >= 0 THEN DRound(x.neg, BSub(mx, my), e, FALSE)
        ELSE DRound(y.neg, BSub(my, mx), e, FALSE)

\* Math.round: the integer nearest to x, a half rounded towards +Infinity
MathRound(x) ==
    IF x.m = <<>> THEN 0
    ELSE IF x.e >= 0 THEN (IF x.neg THEN -1 ELSE 1) * BToInt(BShl(x.m, x.e))
    ELSE LET k    == -x.e
             half == BShl(<<1>>, k - 1)
         IN  IF ~x.neg THEN BToInt(BShr(BAdd(x.m, half), k))
             ELSE IF BCmp(x.m, half) <= 0 THEN 0
             ELSE LET d == BSub(x.m, half)
                      q == BShr(d, k)
                  IN  -(BToInt(q) + IF BCmp(BShl(q, k), d) = 0 THEN 0 ELSE 1)

Min(a, b) == IF a < b THEN a ELSE b
Max(a, b) == IF a > b THEN a ELSE b

\* the literals 0.7, 0.3 and 100 of the source text
D07 == DDivInt(7, 10)
D03 == DDivInt(3, 10)
D100 == DFromInt(100)

\* calculateScore without the Math.min / Math.max around the rounded value
calculateScoreUnclamped(likes, views, maxLikes, maxViews) ==
    LET normalizedLikes == IF maxLikes > 0 THEN DDivInt(likes, maxLikes) ELSE DZero
        normalizedViews == IF maxViews > 0 THEN DDivInt(views, maxViews) ELSE DZero
        score == DMul(DAdd(DMul(normalizedLikes, D07), DMul(normalizedViews, D03)), D100)
    IN  MathRound(score)

\* calculateScore with Math.max(..., 1) as the lower clamp
calculateScoreFloorOne(likes, views, maxLikes, maxViews) ==
    LET normalizedLikes == IF maxLikes > 0 THEN DDivInt(likes, maxLikes) ELSE DZero
        normalizedViews == IF maxViews > 0 THEN DDivInt(views, maxViews) ELSE DZero
        score == DMul(DAdd(DMul(normalizedLikes, D07), DMul(normalizedViews, D03)), D100)
    IN  Min(Max(MathRound(score), 1), 100)

\* calculateScore with Math.min(..., 99) as the upper clamp
calculateScoreBelowHundred(likes, views, maxLikes, maxViews) ==
    LET normalizedLikes == IF maxLikes > 0 THEN DDivInt(likes, maxLikes) ELSE DZero
        normalizedViews == IF maxViews > 0 THEN DDivInt(views, maxViews) ELSE DZero
        score == DMul(DAdd(DMul(normalizedLikes, D07), DMul(normalizedViews, D03)), D100)
    IN  Min(Max(MathRound(score), 0), 99)

\* calculateScore normalising the distance of likes from maxLikes
calculateScoreFromDeficit(likes, views, maxLikes, maxViews) ==
    LET normalizedLikes == IF maxLikes > 0 THEN DDivInt(maxLikes - likes, maxLikes) ELSE DZero
        normalizedViews == IF maxViews > 0 THEN DDivInt(views, maxViews) ELSE DZero
        score == DMul(DAdd(DMul(normalizedLikes, D07), DMul(normalizedViews, D03)), D100)
    IN  Min(Max(MathRound(score), 0), 100)

calculateScore(likes, views, maxLikes, maxViews) ==
    LET normalizedLikes == IF maxLikes > 0 THEN DDivInt(likes, maxLikes) ELSE DZero
        normalizedViews == IF maxViews > 0 THEN DDivInt(views, maxViews) ELSE DZero
        score == DMul(DAdd(DMul(normalizedLikes, D07), DMul(normalizedViews, D03)), D100)
    IN  Min(Max(MathRound(score), 0), 100)

(***************************************************************************)
(* The data store.  A row of the videos table is [id, user_id, likes,      *)
(* views]; the rows are kept in the order the function's read returns them *)
(* (created_at descending), so the newest video, with the greatest id, is  *)
(* first.  A row of the leaderboard table is [video_id, score, rank]; its  *)
(* generated row id and the created_at timestamp are left out, and so are  *)
(* title, username and avatar_url, which the run only copies.              *)
(***************************************************************************)
MaxVideos == 2

Users == {"u1", "u2"}

LikeValues == {0, 199, 200}

ViewValues == {0, 99, 100}

Runs == {1}

VideoAt(n, i, u, l, v) == [id |-> n - i + 1, user_id |-> u, likes |-> l, views |-> v]

\* every content of the videos table with n rows
CorporaOfLen(n) ==
    { [i \in 1..n |-> VideoAt(n, i, c[i][1], c[i][2], c[i][3])] :
        c \in [1..n -> Users \X LikeValues \X ViewValues] }

\* the owners of the table with more than ten users
ManyUsers == <<"u1", "u2", "u3", "u4", "u5", "u6", "u7", "u8", "u9", "u10", "u11">>

\* one video for each of the ManyUsers, the oldest with the most likes
ManyUsersCorpus ==
    [i \in 1..Len(ManyUsers) |-> VideoAt(Len(ManyUsers), i, ManyUsers[i], 10 * i, 100)]

\* three users with (likes, views) = (10, 100), (5, 50), (0, 0)
ThreeUsersCorpus ==
    <<VideoAt(3, 1, "u1", 10, 100), VideoAt(3, 2, "u2", 5, 50), VideoAt(3, 3, "u3", 0, 0)>>

\* the integer columns likes and views holding a negative number
NegativeCorpora ==
    { <<VideoAt(2, 1, "u1", -1, 100), VideoAt(2, 2, "u2", 10, 50)>>,
      <<VideoAt(2, 1, "u1", 10, -1), VideoAt(2, 2, "u2", 5, 100)>> }

\* larger tables: three videos of one user that tie on the score, three users
\* whose best videos tie on the score, and the tables above
SampleCorpora ==
    { <<VideoAt(3, 1, "u1", 199, 100), VideoAt(3, 2, "u1", 200, 99),
        VideoAt(3, 3, "u1", 200, 100)>>,
      <<VideoAt(3, 1, "u1", 200, 100), VideoAt(3, 2, "u2", 200, 99),
        VideoAt(3, 3, "u3", 200, 100)>>,
      ManyUsersCorpus, ThreeUsersCorpus } \cup NegativeCorpora

Corpora == UNION { CorporaOfLen(n) : n \in 0..MaxVideos } \cup SampleCorpora

\* The leaderboard table when the function is first invoked: empty, or the
\* rows an earlier publish left, ranking a video that is no longer stored.
InitialBoards == { <<>>, <<[video_id |-> 0, score |-> 100, rank |-> 1]>> }

VARIABLES
    videos,              \* the videos table
    leaderboard,         \* the leaderboard table
    pc,                  \* pc[r]: where invocation r of the handler stands
    fetched,             \* fetched[r]: `videos`, the rows its read returned
    videoScores,         \* videoScores[r]
    userBestVideos,      \* userBestVideos[r], as MapSet keeps it
    userRankings,        \* userRankings[r]
    leaderboardEntries,  \* leaderboardEntries[r]
    response,            \* response[r]: the Response it returned
    issued,              \* issued[r]: the store requests it has issued
    returned,            \* returned[r]: how each of these requests ended
    lbBefore,            \* lbBefore[r]: the leaderboard table when it started
    scoreArgs,           \* the arguments of a call of calculateScore on its own
    scoreResult          \* what that call returned (NoResult before it returns)

runVars == <<videos, leaderboard, pc, fetched, videoScores, userBestVideos,
             userRankings, leaderboardEntries, response, issued, returned, lbBefore>>

\* the constants of one invocation
locals == <<fetched, videoScores, userBestVideos, userRankings, leaderboardEntries>>

scoreVars == <<scoreArgs, scoreResult>>

(***************************************************************************)
(* The home feed of one client.  A cached video is [likes, liked_by,       *)
(* views]; the cache entry ['danceVideos'] maps each video id of the feed  *)
(* to its cached video.  The remaining columns are only displayed.         *)
(***************************************************************************)
VideoIds == {"a", "b"}

\* user.id of the signed-in user, and the id of some other user
Me == "me"
Other == "other"

\* user === null
NoUser == "null"

\* the rows of the videos table when the feed is loaded: likes counts liked_by,
\* or has fallen behind it
ServerRows ==
    { [likes |-> 0, liked_by |-> <<>>, views |-> 0],
      [likes |-> 1, liked_by |-> <<Me>>, views |-> 0],
      [likes |-> 1, liked_by |-> <<Other>>, views |-> 0],
      [likes |-> 0, liked_by |-> <<Me>>, views |-> 0] }

\* the feeds the model starts from: a is liked by nobody or by the user alone,
\* b has any of the rows
ServerFeeds ==
    { feed \in [VideoIds -> ServerRows] : feed["a"].liked_by \in {<<>>, <<Me>>}
                                          /\ feed["a"].likes = Len(feed["a"].liked_by) }

\* the mutations one session starts
MaxMutations == 2

VARIABLES
    user,          \* useState user: NoUser until supabase.auth.getUser() answers
    danceVideos,   \* the query data of ['danceVideos']
    fetching,      \* a fetch of ['danceVideos'] is under way
    likedVideos,   \* useState likedVideos
    viewedVideos,  \* useState viewedVideos
    rendered,      \* the state the last render saw, which its handlers close over
    videosChanged, \* the query data is another object than the last render saw
    mutations,     \* the mutations started so far, oldest first
    videosTable,   \* the videos table, as far as the feed shows it
    currentIndex,  \* useState currentIndex, as the id of the video at that index
    session        \* the user supabase.auth.getUser() answers with

clientVars == <<user, danceVideos, fetching, likedVideos, viewedVideos, rendered,
                videosChanged, mutations, videosTable, currentIndex, session>>

\* the feed is not mounted
ClientIdle ==
    /\ user = NoUser
    /\ danceVideos = [v \in VideoIds |-> [likes |-> 0, liked_by |-> <<>>, views |-> 0]]
    /\ fetching = FALSE
    /\ likedVideos = {}
    /\ viewedVideos = {}
    /\ rendered = [user |-> NoUser, likedVideos |-> {}, isPending |-> FALSE]
    /\ videosChanged = FALSE
    /\ mutations = <<>>
    /\ videosTable = danceVideos
    /\ currentIndex = "a"
    /\ session = NoUser

(***************************************************************************)
(* The leaderboard screen's read, a call of uploadToStorage, and the AI    *)
(* content requests of the upload screen.                                  *)
(***************************************************************************)
VARIABLES
    leaderBoardDetails,     \* the rows getLeaderBoardDetails returned last
    uploadArgs,             \* the arguments of a call of uploadToStorage, and the file
    uploadPc,               \* where that call stands
    uploadResult,           \* the url it returned or the message of the error it threw
    storageUploads,         \* the calls of supabase.storage upload it has made
    generatingTitle,        \* useState generatingTitle
    generatingDescription,  \* useState generatingDescription
    title,                  \* useState title
    description,            \* useState description
    aiRequests              \* the AI content requests started so far, oldest first

uploadVars == <<uploadArgs, uploadPc, uploadResult, storageUploads>>

aiVars == <<generatingTitle, generatingDescription, title, description, aiRequests>>

screenVars == <<leaderBoardDetails, uploadVars, aiVars>>

\* getLeaderBoardDetails has not returned
NoRead == <<[video_id |-> 0, score |-> 0, rank |-> 0]>>

\* no call of uploadToStorage
NoUpload == [uri |-> <<"">>, type |-> "image", size |-> -1]

UploadIdle ==
    /\ uploadArgs = NoUpload
    /\ uploadPc = "idle"
    /\ uploadResult = ""
    /\ storageUploads = 0

\* the upload screen as it is mounted
AiIdle ==
    /\ generatingTitle = FALSE
    /\ generatingDescription = FALSE
    /\ title = ""
    /\ description = ""
    /\ aiRequests = <<>>

\* no screen has done anything
ScreensIdle ==
    /\ leaderBoardDetails = NoRead
    /\ UploadIdle
    /\ AiIdle

vars == <<runVars, scoreVars, clientVars, screenVars>>

(***************************************************************************)
(* The in-memory part of a run: normalisation maxima, scores, the per-user *)
(* reduction, the sort and the rank assignment.                            *)
(***************************************************************************)
\* `x || 0` on an integer column: the only falsy integer is 0
OrZero(x) == IF x = 0 THEN 0 ELSE x

RECURSIVE MaxOfSeq(_, _)
MaxOfSeq(xs, floor) ==
    IF xs = <<>> THEN floor ELSE MaxOfSeq(Tail(xs), Max(xs[1], floor))

\* Math.max(...videos.map(v => v.likes || 0), 1)
maxLikes(vs) == MaxOfSeq([i \in 1..Len(vs) |-> OrZero(vs[i].likes)], 1)

maxViews(vs) == MaxOfSeq([i \in 1..Len(vs) |-> OrZero(vs[i].views)], 1)

videoScoresOf(vs) ==
    LET mL == maxLikes(vs)
        mV == maxViews(vs)
    IN  [i \in 1..Len(vs) |->
            [video_id |-> vs[i].id,
             user_id  |-> vs[i].user_id,
             score    |-> calculateScore(OrZero(vs[i].likes), OrZero(vs[i].views), mL, mV),
             likes    |-> OrZero(vs[i].likes),
             views    |-> OrZero(vs[i].views)]]

\* A Map<string, UserScore> as the sequence of its values in key insertion
\* order (the order Map.prototype.values() iterates in).
MapIndex(map, key) ==
    IF \E i \in 1..Len(map) : map[i].user_id = key
    THEN CHOOSE i \in 1..Len(map) : map[i].user_id = key
    ELSE 0

\* MapSet that never finds the key
MapSetAppend(map, key, value) == Append(map, value)

\* map.set(key, value): a new key goes last, a present key keeps its place
MapSet(map, key, value) ==
    IF MapIndex(map, key) = 0 THEN Append(map, value)
    ELSE [map EXCEPT ![MapIndex(map, key)] = value]

UserScoreOf(video) ==
    [user_id       |-> video.user_id,
     best_video_id |-> video.video_id,
     score         |-> video.score,
     likes         |-> video.likes,
     views         |-> video.views]

\* Replaces with the score left out of the comparison
ReplacesOnLikes(map, existing, video) ==
    \/ existing = 0
    \/ video.likes > map[existing].likes

\* Replaces with >= for the likes
ReplacesOnTie(map, existing, video) ==
    \/ existing = 0
    \/ video.score > map[existing].score
    \/ video.score = map[existing].score /\ video.likes >= map[existing].likes

\* the condition of the forEach body, with `existing` the index of the
\* user's entry in the map (0: !existingUser)
Replaces(map, existing, video) ==
    \/ existing = 0
    \/ video.score > map[existing].score
    \/ video.score = map[existing].score /\ video.likes > map[existing].likes

\* one iteration of videoScores.forEach
ReduceStep(map, video) ==
    IF Replaces(map, MapIndex(map, video.user_id), video)
    THEN MapSet(map, video.user_id, UserScoreOf(video))
    ELSE map

\* userBestVideos after the first k iterations of the forEach
RECURSIVE ReduceUpTo(_, _)
ReduceUpTo(scored, k) ==
    IF k = 0 THEN <<>>
    ELSE ReduceStep(ReduceUpTo(scored, k - 1), scored[k])

userBestVideosOf(scored) == ReduceUpTo(scored, Len(scored))

\* Compare without its last level
CompareNoViews(a, b) ==
    IF b.score # a.score THEN b.score - a.score
    ELSE b.likes - a.likes

\* the comparator of the sort: negative when a goes first
Compare(a, b) ==
    IF b.score # a.score THEN b.score - a.score
    ELSE IF b.likes # a.likes THEN b.likes - a.likes
    ELSE b.views - a.views

\* Array.prototype.sort is stable: x goes after every element it does not
\* strictly precede
RECURSIVE InsertSorted(_, _)
InsertSorted(sorted, x) ==
    IF sorted = <<>> THEN <<x>>
    ELSE IF Compare(x, sorted[1]) < 0 THEN <<x>> \o sorted
    ELSE <<sorted[1]>> \o InsertSorted(Tail(sorted), x)

RECURSIVE SortRankings(_, _)
SortRankings(xs, k) ==
    IF k = 0 THEN <<>> ELSE InsertSorted(SortRankings(xs, k - 1), xs[k])

\* Array.from(userBestVideos.values()).sort(...)
userRankingsOf(best) == SortRankings(best, Len(best))

\* EntriesOf with rank: index
EntriesZeroBased(rankings) ==
    [index \in 1..Len(rankings) |->
        [video_id |-> rankings[index].best_video_id,
         score    |-> rankings[index].score,
         rank     |-> index - 1]]

EntriesOf(rankings) ==
    [index \in 1..Len(rankings) |->
        [video_id |-> rankings[index].best_video_id,
         score    |-> rankings[index].score,
         rank     |-> index]]

TopN == 10

\* top10Of without slice(0, 10)
top10Unsliced(rankings) ==
    [index \in 1..Len(rankings) |->
        [rank          |-> index,
         user_id       |-> rankings[index].user_id,
         best_video_id |-> rankings[index].best_video_id,
         score         |-> rankings[index].score,
         likes         |-> rankings[index].likes,
         views         |-> rankings[index].views]]

top10Of(rankings) ==
    [index \in 1..Min(TopN, Len(rankings)) |->
        [rank          |-> index,
         user_id       |-> rankings[index].user_id,
         best_video_id |-> rankings[index].best_video_id,
         score         |-> rankings[index].score,
         likes         |-> rankings[index].likes,
         views         |-> rankings[index].views]]

(***************************************************************************)
(* The handler of Deno.serve.  An invocation runs from one await to the    *)
(* next without interruption, so each action is the code between two       *)
(* awaits together with the store request it resumes from.  A request to   *)
(* the store either takes effect and succeeds or returns an error and      *)
(* changes nothing.                                                        *)
(***************************************************************************)
NoResponse ==
    [status |-> 0, message |-> "", updated |-> 0, total_users |-> 0, top10 |-> <<>>]

OkResponse == [NoResponse EXCEPT !.status = 200, !.message = "ok"]

NoVideosResponse == [NoResponse EXCEPT !.status = 200, !.message = "No videos found"]

\* the catch block
ErrorResponse(message) == [NoResponse EXCEPT !.status = 500, !.message = message]

SuccessResponse(rankings, entries) ==
    [status      |-> 200,
     message     |-> "Leaderboard updated successfully",
     updated     |-> Len(entries),
     total_users |-> Len(rankings),
     top10       |-> top10Of(rankings)]

NoResult == -1

NoCall == [likes |-> 0, views |-> 0, maxLikes |-> 0, maxViews |-> 0]

\* no invocation of the handler is under way
RunsIdle ==
    /\ pc = [r \in Runs |-> "idle"]
    /\ fetched = [r \in Runs |-> <<>>]
    /\ videoScores = [r \in Runs |-> <<>>]
    /\ userBestVideos = [r \in Runs |-> <<>>]
    /\ userRankings = [r \in Runs |-> <<>>]
    /\ leaderboardEntries = [r \in Runs |-> <<>>]
    /\ response = [r \in Runs |-> NoResponse]
    /\ issued = [r \in Runs |-> <<>>]
    /\ returned = [r \in Runs |-> <<>>]
    /\ lbBefore = [r \in Runs |-> <<>>]

Init ==
    /\ videos \in Corpora
    /\ leaderboard \in InitialBoards
    /\ RunsIdle
    /\ scoreArgs = NoCall
    /\ scoreResult = NoResult
    /\ ClientIdle
    /\ ScreensIdle

\* req.method === 'OPTIONS'
Options(r) ==
    /\ pc[r] = "idle"
    /\ pc' = [pc EXCEPT ![r] = "responded"]
    /\ response' = [response EXCEPT ![r] = OkResponse]
    /\ UNCHANGED <<videos, leaderboard, locals, issued, returned, lbBefore>>
    /\ UNCHANGED <<scoreVars, clientVars, screenVars>>

\* AfterFetch without `throw fetchError`: the null data of a failed read
\* reaches the `!videos` test
AfterFetchNoThrow(r, fetchError, data) ==
    IF fetchError \/ Len(data) = 0
    THEN /\ pc' = [pc EXCEPT ![r] = "responded"]
         /\ response' = [response EXCEPT ![r] = NoVideosResponse]
         /\ issued' = [issued EXCEPT ![r] = <<"select">>]
         /\ UNCHANGED locals
    ELSE /\ pc' = [pc EXCEPT ![r] = "clearing"]
         /\ fetched' = [fetched EXCEPT ![r] = data]
         /\ videoScores' = [videoScores EXCEPT ![r] = videoScoresOf(data)]
         /\ userBestVideos' =
                [userBestVideos EXCEPT ![r] = userBestVideosOf(videoScores'[r])]
         /\ userRankings' = [userRankings EXCEPT ![r] = userRankingsOf(userBestVideos'[r])]
         /\ leaderboardEntries' =
                [leaderboardEntries EXCEPT ![r] = EntriesOf(userRankings'[r])]
         /\ issued' = [issued EXCEPT ![r] = <<"select", "delete">>]
         /\ UNCHANGED response

\* what the handler does with the outcome of the read of the videos table:
\* throw, answer "No videos found", or compute the entries and issue the delete
AfterFetch(r, fetchError, data) ==
    IF fetchError
    THEN /\ pc' = [pc EXCEPT ![r] = "responded"]
         /\ response' = [response EXCEPT ![r] = ErrorResponse("fetchError")]
         /\ issued' = [issued EXCEPT ![r] = <<"select">>]
         /\ UNCHANGED locals
    ELSE IF Len(data) = 0
    THEN /\ pc' = [pc EXCEPT ![r] = "responded"]
         /\ response' = [response EXCEPT ![r] = NoVideosResponse]
         /\ issued' = [issued EXCEPT ![r] = <<"select">>]
         /\ UNCHANGED locals
    ELSE /\ pc' = [pc EXCEPT ![r] = "clearing"]
         /\ fetched' = [fetched EXCEPT ![r] = data]
         /\ videoScores' = [videoScores EXCEPT ![r] = videoScoresOf(data)]
         /\ userBestVideos' =
                [userBestVideos EXCEPT ![r] = userBestVideosOf(videoScores'[r])]
         /\ userRankings' = [userRankings EXCEPT ![r] = userRankingsOf(userBestVideos'[r])]
         /\ leaderboardEntries' =
                [leaderboardEntries EXCEPT ![r] = EntriesOf(userRankings'[r])]
         /\ issued' = [issued EXCEPT ![r] = <<"select", "delete">>]
         /\ UNCHANGED response

Outcome(error) == IF error THEN "error" ELSE "ok"

FetchVideos(r) ==
    /\ pc[r] = "idle"
    /\ lbBefore' = [lbBefore EXCEPT ![r] = leaderboard]
    /\ \E fetchError \in BOOLEAN :
          /\ returned' = [returned EXCEPT ![r] = <<Outcome(fetchError)>>]
          /\ AfterFetch(r, fetchError, videos)
    /\ UNCHANGED <<videos, leaderboard, scoreVars, clientVars, screenVars>>

\* what the handler does with the outcome of the delete: throw, or issue the insert
AfterDelete(r, deleteError) ==
    IF deleteError
    THEN /\ pc' = [pc EXCEPT ![r] = "responded"]
         /\ response' = [response EXCEPT ![r] = ErrorResponse("deleteError")]
         /\ UNCHANGED issued
    ELSE /\ pc' = [pc EXCEPT ![r] = "inserting"]
         /\ issued' = [issued EXCEPT ![r] = Append(@, "insert")]
         /\ UNCHANGED response

\* DeleteRows with a filter that matches no row
DeleteNoRows(table) == table

\* .delete().neq('id', <the nil uuid>): every row, generated ids being non-nil
DeleteRows(table) == <<>>

ClearLeaderboard(r) ==
    /\ pc[r] = "clearing"
    /\ \E deleteError \in BOOLEAN :
          /\ leaderboard' = IF deleteError THEN leaderboard ELSE DeleteRows(leaderboard)
          /\ returned' = [returned EXCEPT ![r] = Append(@, Outcome(deleteError))]
          /\ AfterDelete(r, deleteError)
    /\ UNCHANGED <<videos, locals, lbBefore, scoreVars, clientVars, screenVars>>

\* what the handler does with the outcome of the insert: throw, or answer
AfterInsert(r, insertError) ==
    /\ pc' = [pc EXCEPT ![r] = "responded"]
    /\ response' = [response EXCEPT ![r] =
            IF insertError THEN ErrorResponse("insertError")
            ELSE SuccessResponse(userRankings[r], leaderboardEntries[r])]

\* .insert(rows)
InsertRows(table, rows) == table \o rows

InsertEntries(r) ==
    /\ pc[r] = "inserting"
    /\ \E insertError \in BOOLEAN :
          /\ leaderboard' = IF insertError THEN leaderboard
                            ELSE InsertRows(leaderboard, leaderboardEntries[r])
          /\ returned' = [returned EXCEPT ![r] = Append(@, Outcome(insertError))]
          /\ AfterInsert(r, insertError)
    /\ UNCHANGED <<videos, locals, issued, lbBefore, scoreVars, clientVars, screenVars>>

\* the function is invoked again: a fresh handler activation
NextRequest(r) ==
    /\ pc[r] = "responded"
    /\ pc' = [pc EXCEPT ![r] = "idle"]
    /\ fetched' = [fetched EXCEPT ![r] = <<>>]
    /\ videoScores' = [videoScores EXCEPT ![r] = <<>>]
    /\ userBestVideos' = [userBestVideos EXCEPT ![r] = <<>>]
    /\ userRankings' = [userRankings EXCEPT ![r] = <<>>]
    /\ leaderboardEntries' = [leaderboardEntries EXCEPT ![r] = <<>>]
    /\ response' = [response EXCEPT ![r] = NoResponse]
    /\ issued' = [issued EXCEPT ![r] = <<>>]
    /\ returned' = [returned EXCEPT ![r] = <<>>]
    /\ lbBefore' = [lbBefore EXCEPT ![r] = <<>>]
    /\ UNCHANGED <<videos, leaderboard, scoreVars, clientVars, screenVars>>

Next ==
    \E r \in Runs :
        \/ Options(r)
        \/ FetchVideos(r)
        \/ ClearLeaderboard(r)
        \/ InsertEntries(r)
        \/ NextRequest(r)

Spec == Init /\ [][Next]_vars

(***************************************************************************)
(* Two invocations of the function at a time: nothing in the handler or in *)
(* the store keeps a second invocation from starting while the first is    *)
(* between its requests.                                                   *)
(***************************************************************************)
ConcurrentRuns == {1, 2}

\* the videos table of the invocations that overlap: empty, one video, or the
\* three users of ThreeUsersCorpus
ConcurrentCorpora == CorporaOfLen(0) \cup CorporaOfLen(1) \cup {ThreeUsersCorpus}

InitConcurrent ==
    /\ videos \in ConcurrentCorpora
    /\ leaderboard \in InitialBoards
    /\ pc = [r \in ConcurrentRuns |-> "idle"]
    /\ fetched = [r \in ConcurrentRuns |-> <<>>]
    /\ videoScores = [r \in ConcurrentRuns |-> <<>>]
    /\ userBestVideos = [r \in ConcurrentRuns |-> <<>>]
    /\ userRankings = [r \in ConcurrentRuns |-> <<>>]
    /\ leaderboardEntries = [r \in ConcurrentRuns |-> <<>>]
    /\ response = [r \in ConcurrentRuns |-> NoResponse]
    /\ issued = [r \in ConcurrentRuns |-> <<>>]
    /\ returned = [r \in ConcurrentRuns |-> <<>>]
    /\ lbBefore = [r \in ConcurrentRuns |-> <<>>]
    /\ scoreArgs = NoCall
    /\ scoreResult = NoResult
    /\ ClientIdle
    /\ ScreensIdle

NextConcurrent ==
    \E r \in ConcurrentRuns :
        \/ Options(r)
        \/ FetchVideos(r)
        \/ ClearLeaderboard(r)
        \/ InsertEntries(r)
        \/ NextRequest(r)

SpecConcurrent == InitConcurrent /\ [][NextConcurrent]_vars

(***************************************************************************)
(* The read of the leaderboard screen, getLeaderBoardDetails, next to the  *)
(* runs of the function.  The joined video and user columns are left out.  *)
(***************************************************************************)
\* eleven users, the two oldest videos with the same likes and views
TiedCutoffCorpus ==
    [i \in 1..Len(ManyUsers) |->
        VideoAt(Len(ManyUsers), i, ManyUsers[i], 10 * Max(i, 2), 100)]

ReadCorpora ==
    CorporaOfLen(0) \cup CorporaOfLen(1)
        \cup {ThreeUsersCorpus, ManyUsersCorpus, TiedCutoffCorpus}

\* .limit(10)
ReadLimit == 10

\* the rows .order('score', { ascending: false }).limit(n) can return: n rows
\* none of which has a lower score than a row left out.  Which of the rows
\* with the score at the cut-off are returned is the choice of the store.
TopByScore(table, n) ==
    { chosen \in SUBSET DOMAIN table :
        /\ Cardinality(chosen) = Min(n, Len(table))
        /\ \A i \in chosen, j \in DOMAIN table \ chosen : table[i].score >= table[j].score }

\* row put behind the rows of sorted with a score not lower than its own
InsertByScore(sorted, row) ==
    LET k == Cardinality({ i \in DOMAIN sorted : sorted[i].score >= row.score })
    IN  SubSeq(sorted, 1, k) \o <<row>> \o SubSeq(sorted, k + 1, Len(sorted))

RECURSIVE OrderByScore(_)
\* rows by score descending, rows with equal scores as they came
OrderByScore(rows) ==
    IF rows = <<>> THEN <<>>
    ELSE InsertByScore(OrderByScore(SubSeq(rows, 1, Len(rows) - 1)), rows[Len(rows)])

\* the rows of the table at the chosen places
RowsAt(table, chosen) ==
    LET places == SelectSeq([i \in DOMAIN table |-> i], LAMBDA i : i \in chosen)
    IN  [k \in DOMAIN places |-> table[places[k]]]

InitRead ==
    /\ videos \in ReadCorpora
    /\ leaderboard \in InitialBoards
    /\ RunsIdle
    /\ scoreArgs = NoCall
    /\ scoreResult = NoResult
    /\ ClientIdle
    /\ ScreensIdle

\* getLeaderBoardDetails: the query throws its error, or returns its rows
getLeaderBoardDetails ==
    /\ \E error \in BOOLEAN :
          IF error
          THEN UNCHANGED leaderBoardDetails
          ELSE \E chosen \in TopByScore(leaderboard, ReadLimit) :
                  leaderBoardDetails' = OrderByScore(RowsAt(leaderboard, chosen))
    /\ UNCHANGED <<runVars, scoreVars, clientVars, uploadVars, aiVars>>

NextRead == Next \/ getLeaderBoardDetails

SpecRead == InitRead /\ [][NextRead]_vars

(***************************************************************************)
(* calculateScore on its own, as a function of its four arguments.         *)
(***************************************************************************)
MaxCount == 4

ScoreCalls ==
    [likes : -1..MaxCount, views : -1..MaxCount,
     maxLikes : 0..MaxCount, maxViews : 0..MaxCount]

InitScore ==
    /\ videos = <<>>
    /\ leaderboard = <<>>
    /\ RunsIdle
    /\ scoreArgs \in ScoreCalls
    /\ scoreResult = NoResult
    /\ ClientIdle
    /\ ScreensIdle

CallCalculateScore ==
    /\ scoreResult = NoResult
    /\ scoreArgs # NoCall
    /\ scoreResult' = calculateScore(scoreArgs.likes, scoreArgs.views,
                                     scoreArgs.maxLikes, scoreArgs.maxViews)
    /\ UNCHANGED <<scoreArgs, runVars, clientVars, screenVars>>

NextScore == CallCalculateScore

SpecScore == InitScore /\ [][NextScore]_vars

\* the runs and the calls side by side
SpecAll == (Init \/ InitScore) /\ [][Next \/ NextScore]_vars

(***************************************************************************)
(* The home screen: the query ['danceVideos'], likeMutation, viewMutation  *)
(* and the state of the component.  A handler runs to its end before the   *)
(* next event is handled, and it sees the state of the last render: the    *)
(* component renders again, and its effects run, in a later step.  The     *)
(* feed shows the videos of the query data, which has been loaded.         *)
(***************************************************************************)
\* array.includes(x)
Includes(array, x) == \E i \in DOMAIN array : array[i] = x

\* array.filter(uid => uid !== x)
Without(array, x) == SelectSeq(array, LAMBDA uid : uid # x)

\* likeUpdater without the tests of isCurrentlyLiked
likeUpdaterUnguarded(old, id, action, uid) ==
    [v \in DOMAIN old |->
        IF v = id
        THEN IF action = "like"
             THEN [old[v] EXCEPT !.likes = old[v].likes + 1,
                                 !.liked_by = Append(old[v].liked_by, uid)]
             ELSE [old[v] EXCEPT !.likes = Max(0, old[v].likes - 1),
                                 !.liked_by = Without(old[v].liked_by, uid)]
        ELSE old[v]]

\* likeUpdater without Math.max
likeUpdaterUnfloored(old, id, action, uid) ==
    [v \in DOMAIN old |->
        IF v = id
        THEN LET currentLikedBy   == old[v].liked_by
                 isCurrentlyLiked == Includes(currentLikedBy, uid)
             IN  IF action = "like" /\ ~isCurrentlyLiked
                 THEN [old[v] EXCEPT !.likes = old[v].likes + 1,
                                     !.liked_by = Append(currentLikedBy, uid)]
                 ELSE IF action = "dislike" /\ isCurrentlyLiked
                 THEN [old[v] EXCEPT !.likes = old[v].likes - 1,
                                     !.liked_by = Without(currentLikedBy, uid)]
                 ELSE old[v]
        ELSE old[v]]

\* the updater likeMutation.onMutate hands to setQueryData
likeUpdater(old, id, action, uid) ==
    [v \in DOMAIN old |->
        IF v = id
        THEN LET currentLikedBy   == old[v].liked_by
                 isCurrentlyLiked == Includes(currentLikedBy, uid)
             IN  IF action = "like" /\ ~isCurrentlyLiked
                 THEN [old[v] EXCEPT !.likes = old[v].likes + 1,
                                     !.liked_by = Append(currentLikedBy, uid)]
                 ELSE IF action = "dislike" /\ isCurrentlyLiked
                 THEN [old[v] EXCEPT !.likes = Max(0, old[v].likes - 1),
                                     !.liked_by = Without(currentLikedBy, uid)]
                 ELSE old[v]
        ELSE old[v]]

\* the updater viewMutation.onMutate hands to setQueryData
viewUpdater(old, id) ==
    [v \in DOMAIN old |->
        IF v = id THEN [old[v] EXCEPT !.views = old[v].views + 1] ELSE old[v]]

\* the set the effect on [videos, user] computes
userLikedVideoIds(vs, uid) == { v \in DOMAIN vs : Includes(vs[v].liked_by, uid) }

\* setLikedVideos in onMutate: add on 'like', delete otherwise
LikedAfterMutate(prev, id, action) ==
    IF action = "like" THEN prev \cup {id} ELSE prev \ {id}

\* setLikedVideos in onError: back to previousLikedState
LikedAfterError(prev, id, previousLikedState) ==
    IF previousLikedState THEN prev \cup {id} ELSE prev \ {id}

LikeMutations == { m \in DOMAIN mutations : mutations[m].kind = "like" }

\* likeMutation.isPending: the state of the mutation the observer started last
isPending ==
    /\ LikeMutations # {}
    /\ mutations[CHOOSE m \in LikeMutations : \A n \in LikeMutations : n <= m].status
          = "pending"

InitClient ==
    /\ videos = <<>>
    /\ leaderboard = <<>>
    /\ RunsIdle
    /\ scoreArgs = NoCall
    /\ scoreResult = NoResult
    /\ user = NoUser
    /\ videosTable \in ServerFeeds
    /\ danceVideos = videosTable
    /\ fetching = FALSE
    /\ likedVideos = {}
    /\ viewedVideos = {}
    /\ rendered = [user |-> NoUser, likedVideos |-> {}, isPending |-> FALSE]
    /\ videosChanged = FALSE
    /\ mutations = <<>>
    /\ currentIndex = "a"
    /\ session = Me
    /\ ScreensIdle

\* supabase.auth.getUser() answers with the user of the session: setUser(user)
GetUser ==
    /\ user = NoUser
    /\ session # NoUser
    /\ user' = session
    /\ UNCHANGED <<danceVideos, fetching, likedVideos, viewedVideos, rendered,
                   videosChanged, mutations, videosTable, currentIndex, session>>
    /\ UNCHANGED <<runVars, scoreVars, screenVars>>

\* queryClient.setQueryData(['danceVideos'], data), also of a fetch that
\* succeeded: data that equals the present data leaves the present object in
\* place (structural sharing), other data is a new object for the next render
setQueryData(data) ==
    /\ danceVideos' = data
    /\ videosChanged' = (videosChanged \/ data # danceVideos)

\* the component renders with the current state and query data, and the effect
\* on [videos, user] runs when one of the two has changed since the last render
Render ==
    LET effect == /\ user # NoUser
                  /\ videosChanged \/ rendered.user # user
        liked  == IF effect THEN userLikedVideoIds(danceVideos, user) ELSE likedVideos
        view   == [user |-> user, likedVideos |-> liked, isPending |-> isPending]
    IN  /\ videosChanged \/ rendered # view
        /\ likedVideos' = liked
        /\ rendered' = view
        /\ videosChanged' = FALSE
        /\ UNCHANGED <<user, danceVideos, fetching, viewedVideos, mutations, videosTable,
                       currentIndex, session>>
        /\ UNCHANGED <<runVars, scoreVars, screenVars>>

\* likeMutation.mutate({id, action}): onMutate, then the remote call is sent
likeMutate(id, action) ==
    LET previousVideos     == danceVideos
        previousLikedState == id \in rendered.likedVideos
    IN  /\ fetching' = FALSE
        /\ setQueryData(likeUpdater(danceVideos, id, action, rendered.user))
        /\ likedVideos' = LikedAfterMutate(likedVideos, id, action)
        /\ mutations' = Append(mutations,
              [kind               |-> "like",
               id                 |-> id,
               action             |-> action,
               status             |-> "pending",
               previousVideos     |-> previousVideos,
               previousLikedState |-> previousLikedState,
               videoBefore        |-> danceVideos[id],
               likedBefore        |-> id \in likedVideos])

\* the like control of a video is pressed
handleLikeDislikePress(videoId) ==
    /\ ~(rendered.isPending \/ rendered.user = NoUser)
    /\ Len(mutations) < MaxMutations
    /\ LET isCurrentlyLiked == videoId \in rendered.likedVideos
           action           == IF isCurrentlyLiked THEN "dislike" ELSE "like"
       IN  likeMutate(videoId, action)
    /\ UNCHANGED <<user, viewedVideos, rendered, videosTable, currentIndex, session>>
    /\ UNCHANGED <<runVars, scoreVars, screenVars>>

\* viewMutation.mutate({id}): onMutate, then the remote call is sent
viewMutate(id) ==
    /\ fetching' = FALSE
    /\ setQueryData(viewUpdater(danceVideos, id))
    /\ mutations' = Append(mutations,
          [kind               |-> "view",
           id                 |-> id,
           action             |-> "view",
           status             |-> "pending",
           previousVideos     |-> danceVideos,
           previousLikedState |-> FALSE,
           videoBefore        |-> danceVideos[id],
           likedBefore        |-> id \in likedVideos])

\* the test of the updater handed to setViewedVideos
\* firstView without the test
firstViewAgain(prev, currentVideoId) == TRUE

firstView(prev, currentVideoId) == currentVideoId \notin prev

\* a video becomes the top viewable item
onViewableItemsChanged(currentVideoId) ==
    /\ currentIndex' = currentVideoId
    /\ IF firstView(viewedVideos, currentVideoId)
       THEN /\ Len(mutations) < MaxMutations
            /\ viewedVideos' = viewedVideos \cup {currentVideoId}
            /\ viewMutate(currentVideoId)
       ELSE UNCHANGED <<viewedVideos, fetching, danceVideos, videosChanged, mutations>>
    /\ UNCHANGED <<user, likedVideos, rendered, videosTable, session>>
    /\ UNCHANGED <<runVars, scoreVars, screenVars>>

\* the remote procedures like_video, unlike_video and increment_views on the
\* row of one video; they enforce no uniqueness
like_video(row, user_id_param) ==
    [row EXCEPT !.likes = row.likes + 1, !.liked_by = Append(row.liked_by, user_id_param)]

unlike_video(row, user_id_param) ==
    [row EXCEPT !.likes = Max(0, row.likes - 1),
                !.liked_by = Without(row.liked_by, user_id_param)]

increment_views(row) == [row EXCEPT !.views = row.views + 1]

\* mutationFn: handleLikeDislike or updateViewCount, when the call succeeds
RemoteProcedure(mutation, row) ==
    IF mutation.action = "like" THEN like_video(row, session)
    ELSE IF mutation.action = "dislike" THEN unlike_video(row, session)
    ELSE increment_views(row)

\* RemoteCallSucceeds without the test of the user in handleLikeDislike
RemoteCallSucceedsUnauthenticated(m) ==
    /\ mutations[m].status = "pending"
    /\ videosTable' = [videosTable EXCEPT ![mutations[m].id] =
                          IF mutations[m].action = "like" THEN like_video(@, Me)
                          ELSE IF mutations[m].action = "dislike" THEN unlike_video(@, Me)
                          ELSE increment_views(@)]
    /\ mutations' = [mutations EXCEPT ![m].status = "success"]
    /\ fetching' = TRUE
    /\ UNCHANGED <<user, danceVideos, likedVideos, viewedVideos, rendered, videosChanged,
                   currentIndex, session>>
    /\ UNCHANGED <<runVars, scoreVars, screenVars>>

\* RemoteCallSucceeds without onSettled
RemoteCallSucceedsUnsettled(m) ==
    /\ mutations[m].status = "pending"
    /\ mutations[m].kind = "like" => session # NoUser
    /\ videosTable' = [videosTable EXCEPT ![mutations[m].id] = RemoteProcedure(mutations[m], @)]
    /\ mutations' = [mutations EXCEPT ![m].status = "success"]
    /\ UNCHANGED <<user, danceVideos, fetching, likedVideos, viewedVideos, rendered,
                   videosChanged, currentIndex, session>>
    /\ UNCHANGED <<runVars, scoreVars, screenVars>>

\* the remote call of mutation m succeeds: onSettled invalidates the query,
\* which fetches again
RemoteCallSucceeds(m) ==
    /\ mutations[m].status = "pending"
    /\ mutations[m].kind = "like" => session # NoUser
    /\ videosTable' = [videosTable EXCEPT ![mutations[m].id] = RemoteProcedure(mutations[m], @)]
    /\ mutations' = [mutations EXCEPT ![m].status = "success"]
    /\ fetching' = TRUE
    /\ UNCHANGED <<user, danceVideos, likedVideos, viewedVideos, rendered, videosChanged,
                   currentIndex, session>>
    /\ UNCHANGED <<runVars, scoreVars, screenVars>>

\* the remote call of mutation m fails: onError, then onSettled
RemoteCallFails(m) ==
    /\ mutations[m].status = "pending"
    /\ setQueryData(mutations[m].previousVideos)
    /\ likedVideos' =
          IF mutations[m].kind = "like"
          THEN LikedAfterError(likedVideos, mutations[m].id, mutations[m].previousLikedState)
          ELSE likedVideos
    /\ mutations' = [mutations EXCEPT ![m].status = "error"]
    /\ fetching' = TRUE
    /\ UNCHANGED <<user, viewedVideos, rendered, videosTable, currentIndex, session>>
    /\ UNCHANGED <<runVars, scoreVars, screenVars>>

\* supabase.auth.getUser() has no user to answer with from now on: the session
\* is missing or cannot be verified
SessionEnds ==
    /\ session # NoUser
    /\ session' = NoUser
    /\ UNCHANGED <<user, danceVideos, fetching, likedVideos, viewedVideos, rendered,
                   videosChanged, mutations, videosTable, currentIndex>>
    /\ UNCHANGED <<runVars, scoreVars, screenVars>>

\* the fetch of ['danceVideos'] returns the rows of the videos table
FetchSucceeds ==
    /\ fetching
    /\ fetching' = FALSE
    /\ setQueryData(videosTable)
    /\ UNCHANGED <<user, likedVideos, viewedVideos, rendered, mutations, videosTable,
                   currentIndex, session>>
    /\ UNCHANGED <<runVars, scoreVars, screenVars>>

\* the fetch fails for good: the query keeps its data
FetchFails ==
    /\ fetching
    /\ fetching' = FALSE
    /\ UNCHANGED <<user, danceVideos, likedVideos, viewedVideos, rendered, videosChanged,
                   mutations, videosTable, currentIndex, session>>
    /\ UNCHANGED <<runVars, scoreVars, screenVars>>

NextClient ==
    \/ GetUser
    \/ Render
    \/ \E videoId \in VideoIds : handleLikeDislikePress(videoId)
    \/ \E currentVideoId \in VideoIds : onViewableItemsChanged(currentVideoId)
    \/ \E m \in DOMAIN mutations : RemoteCallSucceeds(m)
    \/ \E m \in DOMAIN mutations : RemoteCallFails(m)
    \/ FetchSucceeds
    \/ FetchFails
    \/ SessionEnds

SpecClient == InitClient /\ [][NextClient]_vars

\* the feed of the runs that are followed to their end: one video the user
\* likes and one nobody likes
SettleFeeds ==
    { feed \in ServerFeeds :
        /\ feed["a"] = [likes |-> 1, liked_by |-> <<Me>>, views |-> 0]
        /\ feed["b"] = [likes |-> 0, liked_by |-> <<>>, views |-> 0] }

InitSettle ==
    /\ InitClient
    /\ videosTable \in SettleFeeds

\* a remote call that was sent returns, with a result or with an error, and a
\* fetch that was started ends
SpecSettle ==
    /\ InitSettle
    /\ [][NextClient]_vars
    /\ \A m \in 1..MaxMutations :
          WF_vars(m \in DOMAIN mutations /\ (RemoteCallSucceeds(m) \/ RemoteCallFails(m)))
    /\ WF_vars(FetchSucceeds \/ FetchFails)

(***************************************************************************)
(* uploadToStorage.  A uri is written as its parts between the dots:       *)
(* "file:///clip.mp4" is <<"file:///clip", "mp4">> and "" is <<"">>.  The  *)
(* file behind the uri has `size` bytes.                                   *)
(***************************************************************************)
SampleUris ==
    { <<"">>,
      <<"file:///clip", "mp4">>, <<"file:///clip", "MP4">>, <<"file:///clip", "mov">>,
      <<"file:///photo", "jpg">>, <<"file:///photo", "PNG">>,
      <<"file:///clip", "txt">>, <<"file:///clip", "">>, <<"file:///clip", "mp4", "bak">>,
      <<"content://media/42">>, <<"mp4">> }

UploadTypes == {"image", "video"}

MB == 1024 * 1024

FileSizes == {0, 5 * MB, 5 * MB + 1, 40 * MB, 40 * MB + 1}

UploadCalls == [uri : SampleUris, type : UploadTypes, size : FileSizes]

\* String.prototype.toLowerCase on the parts of the SampleUris
toLowerCase(str) ==
    CASE str = "MP4" -> "mp4"
      [] str = "PNG" -> "png"
      [] OTHER -> str

\* uri.split(".").pop()?.toLowerCase()
fileExtOf(uri) == toLowerCase(uri[Len(uri)])

validExtensions(type) ==
    IF type = "video" THEN {"mp4", "mov", "avi", "mkv"}
    ELSE {"jpg", "jpeg", "png", "gif", "webp"}

\* maxSize with the limit of a video for every type
maxSizeOfVideo(type) == 40 * 1024 * 1024

maxSize(type) == IF type = "video" THEN 40 * 1024 * 1024 ELSE 5 * 1024 * 1024

InitUpload ==
    /\ videos = <<>>
    /\ leaderboard = <<>>
    /\ RunsIdle
    /\ scoreArgs = NoCall
    /\ scoreResult = NoResult
    /\ ClientIdle
    /\ leaderBoardDetails = NoRead
    /\ AiIdle
    /\ uploadArgs \in UploadCalls
    /\ uploadPc = "idle"
    /\ uploadResult = ""
    /\ storageUploads = 0

\* the call ends with `throw new Error(message)`
Throw(message) ==
    /\ uploadPc' = "thrown"
    /\ uploadResult' = message

\* uploadToStorage up to `await readAsStringAsync`
CallUploadToStorage ==
    /\ uploadPc = "idle"
    /\ uploadArgs # NoUpload
    /\ LET fileExt == fileExtOf(uploadArgs.uri)
       IN  IF uploadArgs.uri = <<"">> THEN Throw("No file selected")
           ELSE IF fileExt = "" THEN Throw("Invalid file extension")
           ELSE IF uploadArgs.type = "video" /\ fileExt \notin validExtensions("video")
           THEN Throw("Please select a valid video file (MP4, MOV, AVI, MKV)")
           ELSE IF uploadArgs.type = "image" /\ fileExt \notin validExtensions("image")
           THEN Throw("Please select a valid image file (JPG, PNG, GIF, WebP)")
           ELSE IF uploadArgs.type \notin {"video", "image"}
           THEN Throw("Invalid file type. Only 'image' or 'video' are supported.")
           ELSE uploadPc' = "reading" /\ UNCHANGED uploadResult
    /\ UNCHANGED <<uploadArgs, storageUploads>>
    /\ UNCHANGED <<runVars, scoreVars, clientVars, leaderBoardDetails, aiVars>>

\* readAsStringAsync rejects, or gives the bytes: the size test, then the
\* call of supabase.storage upload
ReadFile ==
    /\ uploadPc = "reading"
    /\ \E readError \in BOOLEAN :
          IF readError
          THEN Throw("readAsStringAsync") /\ UNCHANGED storageUploads
          ELSE IF uploadArgs.size > maxSize(uploadArgs.type)
          THEN /\ Throw(IF uploadArgs.type = "video"
                        THEN "Video size must be less than 40MB"
                        ELSE "Image size must be less than 5MB")
               /\ UNCHANGED storageUploads
          ELSE /\ uploadPc' = "uploading"
               /\ storageUploads' = storageUploads + 1
               /\ UNCHANGED uploadResult
    /\ UNCHANGED uploadArgs
    /\ UNCHANGED <<runVars, scoreVars, clientVars, leaderBoardDetails, aiVars>>

\* the upload answers: uploadError, no public url, or the public url
StorageUploadReturns ==
    /\ uploadPc = "uploading"
    /\ \E uploadError, publicUrl \in BOOLEAN :
          IF uploadError THEN Throw("uploadError.message")
          ELSE IF ~publicUrl THEN Throw("Failed to get public URL")
          ELSE uploadPc' = "returned" /\ uploadResult' = "data.publicUrl"
    /\ UNCHANGED <<uploadArgs, storageUploads>>
    /\ UNCHANGED <<runVars, scoreVars, clientVars, leaderBoardDetails, aiVars>>

NextUpload ==
    \/ CallUploadToStorage
    \/ ReadFile
    \/ StorageUploadReturns

SpecUpload == InitUpload /\ [][NextUpload]_vars

(***************************************************************************)
(* The AI content requests of the upload screen: aiMutation with           *)
(* generateAIContent as its mutationFn.  A category is selected, so that   *)
(* generateAITitle and generateAIDescription do not return at their first  *)
(* test; the home feed is not mounted.                                     *)
(***************************************************************************)
\* the requests one visit of the screen starts
MaxRequests == 3

\* a field the payload does not have
Undefined == "undefined"

\* { success: true, result, type } of the function, for a request of this type
SuccessPayload(type) == [success |-> TRUE, result |-> "generated", type |-> type]

\* { success: false, error } and { error }: the payloads of the function's
\* catch block and of its test of the prompt, which response.json() returns
\* like any other body
ErrorPayload == [success |-> FALSE, result |-> Undefined, type |-> Undefined]

InitAi ==
    /\ videos = <<>>
    /\ leaderboard = <<>>
    /\ RunsIdle
    /\ scoreArgs = NoCall
    /\ scoreResult = NoResult
    /\ ClientIdle
    /\ ScreensIdle

\* aiMutation.mutate({ prompt, type })
aiMutate(type) ==
    aiRequests' = Append(aiRequests, [type |-> type, status |-> "pending"])

\* the title button, enabled while generatingTitle is false, is pressed
generateAITitle ==
    /\ ~generatingTitle
    /\ Len(aiRequests) < MaxRequests
    /\ generatingTitle' = TRUE
    /\ aiMutate("title")
    /\ UNCHANGED <<generatingDescription, title, description>>
    /\ UNCHANGED <<runVars, scoreVars, clientVars, leaderBoardDetails, uploadVars>>

\* the description button, enabled while generatingDescription is false, is
\* pressed
generateAIDescription ==
    /\ ~generatingDescription
    /\ Len(aiRequests) < MaxRequests
    /\ generatingDescription' = TRUE
    /\ aiMutate("description")
    /\ UNCHANGED <<generatingTitle, title, description>>
    /\ UNCHANGED <<runVars, scoreVars, clientVars, leaderBoardDetails, uploadVars>>

\* aiMutation.onSuccess(data)
aiOnSuccess(data) ==
    IF data.type = "title"
    THEN /\ title' = data.result
         /\ generatingTitle' = FALSE
         /\ UNCHANGED <<description, generatingDescription>>
    ELSE /\ description' = data.result
         /\ generatingDescription' = FALSE
         /\ UNCHANGED <<title, generatingTitle>>

\* aiMutation.onError
aiOnError ==
    /\ generatingTitle' = FALSE
    /\ generatingDescription' = FALSE
    /\ UNCHANGED <<title, description>>

\* generateAIContent resolves with the body of the response, whatever its
\* status: onSuccess
AiRequestResolves(i) ==
    /\ aiRequests[i].status = "pending"
    /\ \E data \in {SuccessPayload(aiRequests[i].type), ErrorPayload} :
          /\ aiOnSuccess(data)
          /\ aiRequests' = [aiRequests EXCEPT ![i].status =
                               IF data.success THEN "success" ELSE "error payload"]
    /\ UNCHANGED <<runVars, scoreVars, clientVars, leaderBoardDetails, uploadVars>>

\* fetch or response.json() rejects: onError
AiRequestRejects(i) ==
    /\ aiRequests[i].status = "pending"
    /\ aiOnError
    /\ aiRequests' = [aiRequests EXCEPT ![i].status = "thrown"]
    /\ UNCHANGED <<runVars, scoreVars, clientVars, leaderBoardDetails, uploadVars>>

NextAi ==
    \/ generateAITitle
    \/ generateAIDescription
    \/ \E i \in DOMAIN aiRequests : AiRequestResolves(i)
    \/ \E i \in DOMAIN aiRequests : AiRequestRejects(i)

SpecAi == InitAi /\ [][NextAi]_vars

(***************************************************************************)
(* Properties of a leaderboard run.                                        *)
(***************************************************************************)
UserIds(vs) == { vs[i].user_id : i \in DOMAIN vs }

\* the owner of the video with this id in vs ("" when vs has no such video)
OwnerOf(vs, id) ==
    IF \E i \in DOMAIN vs : vs[i].id = id
    THEN vs[CHOOSE i \in DOMAIN vs : vs[i].id = id].user_id
    ELSE ""

\* C1: when the read of the videos table returns an error, the run issues no
\* delete and no insert, answers with status 500, and the leaderboard table
\* is what it was when the run started.
C1_FetchErrorAborts ==
    \A r \in Runs :
        (returned[r] # <<>> /\ returned[r][1] = "error") =>
            /\ pc[r] = "responded"
            /\ response[r].status = 500
            /\ issued[r] = <<"select">>
            /\ returned[r] = <<"error">>
            /\ leaderboard = lbBefore[r]

C1_Witness ==
    \E r \in Runs :
        /\ returned[r] = <<"error">>
        /\ pc[r] = "responded"
        /\ videos # <<>>
        /\ leaderboard # <<>>

\* C2: for a non-empty corpus, a leaderboard that held rows when a run started
\* is empty only between that run's delete and its insert; in particular it
\* is not empty once the run has answered.
C2_EmptyOnlyBetweenDeleteAndInsert ==
    \A r \in Runs :
        (issued[r] # <<>> /\ lbBefore[r] # <<>> /\ videos # <<>> /\ leaderboard = <<>>)
            => pc[r] = "inserting"

\* C3: a run over zero videos answers without an error, with updated = 0, and
\* leaves the leaderboard table empty whatever it held before.
C3_EmptyCorpusPublishesEmptyBoard ==
    \A r \in Runs :
        (pc[r] = "responded" /\ returned[r] = <<"ok">> /\ videos = <<>>) =>
            /\ response[r].status = 200
            /\ response[r].updated = 0
            /\ leaderboard = <<>>

\* C4: after a run that succeeds on a non-empty corpus the leaderboard table
\* holds exactly the entries that run computed, one for each distinct user
\* of the corpus, each ranking a video of the corpus, and no other row.
C4_SuccessfulRunReplaces ==
    \A r \in Runs :
        returned[r] = <<"ok", "ok", "ok">> =>
            /\ leaderboard = leaderboardEntries[r]
            /\ Len(leaderboard) = Cardinality(UserIds(fetched[r]))
            /\ \A u \in UserIds(fetched[r]) :
                  Cardinality({ i \in DOMAIN leaderboard :
                                  OwnerOf(fetched[r], leaderboard[i].video_id) = u }) = 1
            /\ \A i \in DOMAIN leaderboard :
                  \E j \in DOMAIN fetched[r] : fetched[r][j].id = leaderboard[i].video_id

C4_Witness ==
    \E r \in Runs :
        /\ returned[r] = <<"ok", "ok", "ok">>
        /\ lbBefore[r] # <<>>
        /\ lbBefore[r] # leaderboard
        /\ Len(leaderboard) = 2

\* the run has read a non-empty corpus and computed its entries
Computed(r) == fetched[r] # <<>>

\* (score, likes) of a is lexicographically at least that of b
LexGE2(a, b) ==
    \/ a.score > b.score
    \/ a.score = b.score /\ a.likes >= b.likes

\* (score, likes, views) of a is lexicographically at least that of b
LexGE3(a, b) ==
    \/ a.score > b.score
    \/ a.score = b.score /\ a.likes > b.likes
    \/ a.score = b.score /\ a.likes = b.likes /\ a.views >= b.views

TiedOnScoreAndLikes(a, b) == a.score = b.score /\ a.likes = b.likes

\* the position in videoScores[r] of the video entry e names
ChosenIndex(r, e) ==
    CHOOSE j \in DOMAIN videoScores[r] : videoScores[r][j].video_id = e.best_video_id

\* C5: the reduction holds exactly one entry for each user_id that owns a video
\* of the corpus, and no entry for any other user.
C5_OneEntryPerUser ==
    \A r \in Runs :
        Computed(r) =>
            /\ \A u \in UserIds(fetched[r]) :
                  Cardinality({ i \in DOMAIN userBestVideos[r] :
                                  userBestVideos[r][i].user_id = u }) = 1
            /\ \A i \in DOMAIN userBestVideos[r] :
                  userBestVideos[r][i].user_id \in UserIds(fetched[r])

C5_Witness ==
    \E r \in Runs :
        /\ Computed(r)
        /\ Len(userBestVideos[r]) = 1
        /\ Len(fetched[r]) = 3

\* C6 as stated: the video chosen for a user is lexicographically maximal in
\* (score, likes, views) among that user's videos.
C6_BestMaximizesScoreLikesViews ==
    \A r \in Runs :
        Computed(r) =>
            \A i \in DOMAIN userBestVideos[r] :
                \A j \in DOMAIN videoScores[r] :
                    videoScores[r][j].user_id = userBestVideos[r][i].user_id
                        => LexGE3(userBestVideos[r][i], videoScores[r][j])

\* C6 as amended: the entry of a user is one of that user's videos, with its
\* score, likes and views, and it is lexicographically maximal in
\* (score, likes) among that user's videos; views are not compared.
C6_BestMaximizesScoreLikes ==
    \A r \in Runs :
        Computed(r) =>
            \A i \in DOMAIN userBestVideos[r] :
                /\ \E j \in DOMAIN videoScores[r] :
                      userBestVideos[r][i] = UserScoreOf(videoScores[r][j])
                /\ \A j \in DOMAIN videoScores[r] :
                      videoScores[r][j].user_id = userBestVideos[r][i].user_id
                          => LexGE2(userBestVideos[r][i], videoScores[r][j])

\* a user whose chosen video has fewer views than another of the user's videos
\* with the same score and likes
C6_Witness ==
    \E r \in Runs :
        /\ Computed(r)
        /\ \E i \in DOMAIN userBestVideos[r], j \in DOMAIN videoScores[r] :
              /\ videoScores[r][j].user_id = userBestVideos[r][i].user_id
              /\ TiedOnScoreAndLikes(videoScores[r][j], userBestVideos[r][i])
              /\ videoScores[r][j].views > userBestVideos[r][i].views

\* a scored video of user u, as the forEach receives it
ScoredVideo(id, u, score, likes, views) ==
    [video_id |-> id, user_id |-> u, score |-> score, likes |-> likes, views |-> views]

\* the reducer on [{80,5},{80,10},{90,1}] and on [{80,5},{80,10}] (score, likes)
C7_Examples ==
    /\ userBestVideosOf(<<ScoredVideo(1, "u1", 80, 5, 0), ScoredVideo(2, "u1", 80, 10, 0),
                          ScoredVideo(3, "u1", 90, 1, 0)>>)
          = <<UserScoreOf(ScoredVideo(3, "u1", 90, 1, 0))>>
    /\ userBestVideosOf(<<ScoredVideo(1, "u1", 80, 5, 0), ScoredVideo(2, "u1", 80, 10, 0)>>)
          = <<UserScoreOf(ScoredVideo(2, "u1", 80, 10, 0))>>

\* C7: scanning in input order, the k-th video becomes its user's entry exactly
\* when the user has no entry yet, or its score is strictly greater than the
\* entry's, or the scores are equal and its likes are strictly greater;
\* otherwise the map is unchanged.  So the chosen video has the maximal
\* (score, likes) of the user and is the first such video in input order,
\* whatever the views.
C7_ReplaceRule ==
    /\ C7_Examples
    /\ \A r \in Runs :
        Computed(r) =>
            /\ userBestVideos[r] = ReduceUpTo(videoScores[r], Len(videoScores[r]))
            /\ \A k \in DOMAIN videoScores[r] :
                  LET before == ReduceUpTo(videoScores[r], k - 1)
                      after  == ReduceUpTo(videoScores[r], k)
                      video  == videoScores[r][k]
                      held   == { i \in DOMAIN before : before[i].user_id = video.user_id }
                  IN  IF held = {}
                      THEN after = Append(before, UserScoreOf(video))
                      ELSE \A i \in held :
                             IF \/ video.score > before[i].score
                                \/ video.score = before[i].score
                                     /\ video.likes > before[i].likes
                             THEN after = [before EXCEPT ![i] = UserScoreOf(video)]
                             ELSE after = before
            /\ \A i \in DOMAIN userBestVideos[r] :
                  \A j \in DOMAIN videoScores[r] :
                      videoScores[r][j].user_id = userBestVideos[r][i].user_id =>
                          /\ LexGE2(userBestVideos[r][i], videoScores[r][j])
                          /\ TiedOnScoreAndLikes(videoScores[r][j], userBestVideos[r][i])
                                => ChosenIndex(r, userBestVideos[r][i]) <= j

\* three videos of one user with equal scores: the second has more likes than
\* the first and is chosen, the third ties with it and has more views
C7_Witness ==
    \E r \in Runs :
        /\ Computed(r)
        /\ Len(videoScores[r]) = 3
        /\ Len(userBestVideos[r]) = 1
        /\ videoScores[r][2].score = videoScores[r][1].score
        /\ videoScores[r][2].likes > videoScores[r][1].likes
        /\ TiedOnScoreAndLikes(videoScores[r][3], videoScores[r][2])
        /\ videoScores[r][3].views > videoScores[r][2].views
        /\ userBestVideos[r][1].best_video_id = videoScores[r][2].video_id

\* the assembler on [{50,2,100},{50,2,50}] (score, likes, views), in both
\* input orders: the entry with 100 views gets rank 1
C8_Examples ==
    LET a == UserScoreOf(ScoredVideo(1, "u1", 50, 2, 100))
        b == UserScoreOf(ScoredVideo(2, "u2", 50, 2, 50))
    IN  /\ EntriesOf(userRankingsOf(<<a, b>>))
              = <<[video_id |-> 1, score |-> 50, rank |-> 1],
                  [video_id |-> 2, score |-> 50, rank |-> 2]>>
        /\ EntriesOf(userRankingsOf(<<b, a>>))
              = <<[video_id |-> 1, score |-> 50, rank |-> 1],
                  [video_id |-> 2, score |-> 50, rank |-> 2]>>

\* C8: userRankings holds the entries of the reduction ordered by score, then
\* likes, then views, all descending, and the i-th of them gets rank i: the
\* ranks of n entries are 1..n, each once, also for fully tied entries.
C8_RanksFollowSortedOrder ==
    /\ C8_Examples
    /\ \A r \in Runs :
        Computed(r) =>
            /\ Len(userRankings[r]) = Len(userBestVideos[r])
            /\ { userRankings[r][i] : i \in DOMAIN userRankings[r] }
                  = { userBestVideos[r][i] : i \in DOMAIN userBestVideos[r] }
            /\ \A i, j \in DOMAIN userRankings[r] :
                  i < j => LexGE3(userRankings[r][i], userRankings[r][j])
            /\ Len(leaderboardEntries[r]) = Len(userRankings[r])
            /\ \A i \in DOMAIN leaderboardEntries[r] :
                  /\ leaderboardEntries[r][i].rank = i
                  /\ leaderboardEntries[r][i].video_id = userRankings[r][i].best_video_id
                  /\ leaderboardEntries[r][i].score = userRankings[r][i].score
            /\ { leaderboardEntries[r][i].rank : i \in DOMAIN leaderboardEntries[r] }
                  = 1..Len(userBestVideos[r])

\* three ranked users: two tie on score, likes and views and still get two
\* ranks, and one entered the map later than another but outranks it on views
C8_Witness ==
    \E r \in Runs :
        /\ Computed(r)
        /\ Len(leaderboardEntries[r]) = 3
        /\ \E i, j \in DOMAIN userRankings[r] :
              /\ i < j
              /\ TiedOnScoreAndLikes(userRankings[r][i], userRankings[r][j])
              /\ userRankings[r][i].views = userRankings[r][j].views
        /\ \E i, j \in DOMAIN userRankings[r] :
              /\ i < j
              /\ TiedOnScoreAndLikes(userRankings[r][i], userRankings[r][j])
              /\ userRankings[r][i].views > userRankings[r][j].views
              /\ MapIndex(userBestVideos[r], userRankings[r][i].user_id)
                    > MapIndex(userBestVideos[r], userRankings[r][j].user_id)

(***************************************************************************)
(* Properties of calculateScore.                                           *)
(***************************************************************************)
\* The score in exact arithmetic: raw = (likes/maxLikes*0.7 +
\* views/maxViews*0.3)*100 = num/den, a term being 0 when its maximum is not
\* > 0; raw rounded to the nearest integer, halves up; then clamped.
ExactScore(likes, views, mLikes, mViews) ==
    LET ln  == IF mLikes > 0 THEN likes ELSE 0
        ld  == IF mLikes > 0 THEN mLikes ELSE 1
        vn  == IF mViews > 0 THEN views ELSE 0
        vd  == IF mViews > 0 THEN mViews ELSE 1
        num == 70 * ln * vd + 30 * vn * ld
        den == ld * vd
    IN  Min(Max((2 * num + den) \div (2 * den), 0), 100)

\* the call has returned, on likes, views >= 0 and maxima >= 1
ReturnedOnValidArgs ==
    /\ scoreResult # NoResult
    /\ scoreArgs.likes >= 0
    /\ scoreArgs.views >= 0
    /\ scoreArgs.maxLikes >= 1
    /\ scoreArgs.maxViews >= 1

\* C9: on likes, views >= 0 and maxima >= 1 calculateScore returns the exact
\* value of the formula, rounded to the nearest integer with halves up and
\* clamped to [0, 100].
C9_ScoreIsExactRounding ==
    ReturnedOnValidArgs =>
        scoreResult = ExactScore(scoreArgs.likes, scoreArgs.views,
                                 scoreArgs.maxLikes, scoreArgs.maxViews)

\* C10: on likes, views >= 0 and maxima >= 1, also with likes > maxLikes or
\* views > maxViews, calculateScore returns an integer in 0..100; and in a run
\* maxLikes and maxViews are at least 1.
C10_ScoreInRange ==
    /\ ReturnedOnValidArgs => scoreResult \in 0..100
    /\ \A r \in Runs :
          Computed(r) =>
              /\ maxLikes(fetched[r]) >= 1
              /\ maxViews(fetched[r]) >= 1
              /\ \A i \in DOMAIN videoScores[r] : videoScores[r][i].score \in 0..100

\* a call whose likes exceed maxLikes and whose rounded value was clamped
C10_Witness ==
    /\ ReturnedOnValidArgs
    /\ scoreArgs.likes > scoreArgs.maxLikes
    /\ scoreArgs.views > scoreArgs.maxViews
    /\ scoreResult = 100

\* the call has returned
Returned == scoreResult # NoResult

\* C11: with maxLikes, maxViews >= 1, calculateScore(0, 0, maxLikes, maxViews)
\* returns 0.
C11_ZeroScoresZero ==
    (/\ Returned
     /\ scoreArgs.likes = 0
     /\ scoreArgs.views = 0
     /\ scoreArgs.maxLikes >= 1
     /\ scoreArgs.maxViews >= 1) => scoreResult = 0

C11_Witness ==
    /\ Returned
    /\ scoreArgs = [likes |-> 0, views |-> 0, maxLikes |-> 3, maxViews |-> 4]
    /\ scoreResult = 0

\* C12: with maxLikes, maxViews >= 1, calculateScore(maxLikes, maxViews,
\* maxLikes, maxViews) returns 100.
C12_MaximaScoreHundred ==
    (/\ Returned
     /\ scoreArgs.maxLikes >= 1
     /\ scoreArgs.maxViews >= 1
     /\ scoreArgs.likes = scoreArgs.maxLikes
     /\ scoreArgs.views = scoreArgs.maxViews) => scoreResult = 100

C12_Witness ==
    /\ Returned
    /\ scoreArgs = [likes |-> 3, views |-> 4, maxLikes |-> 3, maxViews |-> 4]
    /\ scoreResult = 100

\* C13: whatever views, maxLikes and maxViews are, a call with more likes
\* never returns less: the value returned for likes1 is at most the value
\* calculateScore gives for every likes2 >= likes1 and the same other
\* arguments.
C13_MonotoneInLikes ==
    Returned =>
        \A likes2 \in scoreArgs.likes..MaxCount :
            scoreResult <= calculateScore(likes2, scoreArgs.views,
                                          scoreArgs.maxLikes, scoreArgs.maxViews)

\* a call whose score strictly increases with one more like
C13_Witness ==
    /\ Returned
    /\ scoreArgs.likes < MaxCount
    /\ scoreArgs.maxLikes >= 1
    /\ scoreResult < calculateScore(scoreArgs.likes + 1, scoreArgs.views,
                                    scoreArgs.maxLikes, scoreArgs.maxViews)
    /\ scoreResult > 0

(***************************************************************************)
(* Properties of the scoring step and of the answer of a run.              *)
(***************************************************************************)
\* vs with every negative likes or views replaced by 0
Zeroed(vs) ==
    [i \in DOMAIN vs |-> [vs[i] EXCEPT !.likes = Max(@, 0), !.views = Max(@, 0)]]

HasNegative(vs) == \E i \in DOMAIN vs : vs[i].likes < 0 \/ vs[i].views < 0

\* C14: a negative likes or views of a fetched video counts as 0: the score the
\* run computes for each video is the score it computes when the negative
\* values are 0, and the likes and views carried on to the reducer and the
\* ranking are the zeroed ones.
C14_NegativeCountsAsZero ==
    \A r \in Runs :
        (Computed(r) /\ HasNegative(fetched[r])) =>
            videoScores[r] = videoScoresOf(Zeroed(fetched[r]))

\* C15: the answer of a successful run lists min(10, ranked users) users, the
\* i-th with rank i and with the user, best video and score of the i-th entry
\* of the sorted ranking, which is the persisted row of rank i; `updated` is
\* the number of persisted rows and the number of distinct users.
C15_TopTenOfRanking ==
    \A r \in Runs :
        returned[r] = <<"ok", "ok", "ok">> =>
            LET top10 == response[r].top10
            IN  /\ Len(top10) = Min(10, Len(userRankings[r]))
                /\ \A i \in DOMAIN top10 :
                      /\ top10[i].rank = i
                      /\ top10[i].user_id = userRankings[r][i].user_id
                      /\ top10[i].best_video_id = userRankings[r][i].best_video_id
                      /\ top10[i].score = userRankings[r][i].score
                      /\ OwnerOf(fetched[r], top10[i].best_video_id) = top10[i].user_id
                      /\ leaderboard[i] = [video_id |-> top10[i].best_video_id,
                                           score    |-> top10[i].score,
                                           rank     |-> i]
                /\ response[r].updated = Len(leaderboard)
                /\ response[r].updated = Cardinality(UserIds(fetched[r]))
                /\ response[r].total_users = response[r].updated

\* a successful run that ranked eleven users and listed ten
C15_Witness ==
    \E r \in Runs :
        /\ returned[r] = <<"ok", "ok", "ok">>
        /\ Len(leaderboard) = 11
        /\ response[r].updated = 11
        /\ Len(response[r].top10) = 10

\* the corpus is three videos of three distinct users with (likes, views) =
\* (10, 100), (5, 50), (0, 0), in this order
IsThreeUsersExample(vs) ==
    /\ Len(vs) = 3
    /\ <<vs[1].likes, vs[1].views>> = <<10, 100>>
    /\ <<vs[2].likes, vs[2].views>> = <<5, 50>>
    /\ <<vs[3].likes, vs[3].views>> = <<0, 0>>
    /\ Cardinality(UserIds(vs)) = 3

\* C16: on that corpus a run computes maxLikes = 10 and maxViews = 100, the
\* scores 100, 50 and 0, and the entries that rank the three videos 1, 2 and
\* 3 in this order; a successful run persists exactly these.
C16_ThreeUsersExample ==
    \A r \in Runs :
        (Computed(r) /\ IsThreeUsersExample(fetched[r])) =>
            LET ranked == <<[video_id |-> fetched[r][1].id, score |-> 100, rank |-> 1],
                            [video_id |-> fetched[r][2].id, score |-> 50, rank |-> 2],
                            [video_id |-> fetched[r][3].id, score |-> 0, rank |-> 3]>>
            IN  /\ maxLikes(fetched[r]) = 10
                /\ maxViews(fetched[r]) = 100
                /\ [i \in 1..3 |-> videoScores[r][i].score] = <<100, 50, 0>>
                /\ leaderboardEntries[r] = ranked
                /\ returned[r] = <<"ok", "ok", "ok">> => leaderboard = ranked

C16_Witness ==
    \E r \in Runs :
        /\ IsThreeUsersExample(fetched[r])
        /\ returned[r] = <<"ok", "ok", "ok">>
        /\ Len(leaderboard) = 3
        /\ lbBefore[r] # <<>>

(***************************************************************************)
(* Properties of the optimistic updates of the home screen.                *)
(***************************************************************************)
\* the remote call of mutation m fails in this step
Fails(m) == mutations[m].status = "pending" /\ mutations'[m].status = "error"

\* C17: when the remote call of a like or unlike fails, the error handling
\* leaves the cached video with the likes and the liked_by it had immediately
\* before the optimistic update of that mutation, and the video in
\* likedVideos exactly if it was there before the mutation.
C17_RollbackRestoresLike ==
    [][\A m \in DOMAIN mutations :
          (mutations[m].kind = "like" /\ Fails(m)) =>
              LET id == mutations[m].id
              IN  /\ danceVideos'[id].likes = mutations[m].videoBefore.likes
                  /\ danceVideos'[id].liked_by = mutations[m].videoBefore.liked_by
                  /\ (id \in likedVideos') <=> mutations[m].likedBefore]_vars

\* the number of times x occurs in array
Occurrences(array, x) == Cardinality({ i \in DOMAIN array : array[i] = x })

\* what the optimistic update of a like or unlike that starts in this step
\* does to the cache; an unlike takes the likes from n to lowered[n]
GuardedLikeUpdate(lowered) ==
    (Len(mutations') = Len(mutations) + 1 /\ mutations'[Len(mutations')].kind = "like") =>
        LET started  == mutations'[Len(mutations')]
            id       == started.id
            old      == danceVideos[id]
            new      == danceVideos'[id]
            wasLiked == Includes(old.liked_by, Me)
        IN  /\ \A v \in VideoIds \ {id} : danceVideos'[v] = danceVideos[v]
            /\ IF started.action = "like" /\ ~wasLiked
               THEN /\ new.likes = old.likes + 1
                    /\ new.liked_by = Append(old.liked_by, Me)
                    /\ Occurrences(new.liked_by, Me) = 1
                    /\ new.views = old.views
               ELSE IF started.action = "dislike" /\ wasLiked
               THEN /\ new.likes = lowered[old.likes]
                    /\ ~Includes(new.liked_by, Me)
                    /\ \A u \in {Other} :
                          Occurrences(new.liked_by, u) = Occurrences(old.liked_by, u)
                    /\ new.views = old.views
               ELSE new = old

\* C19 as stated: 'like' changes the cached video only if the user is not in
\* its liked_by, then likes grows by 1 and the user is added once; 'dislike'
\* only if the user is in it, then likes falls by 1 and the user is removed;
\* otherwise the cached video is unchanged.
C19_GuardedUpdateByOne ==
    [][GuardedLikeUpdate([n \in Nat |-> n - 1])]_vars

\* C19 as amended: as above, but an unlike takes the likes to
\* max(0, likes - 1): a video with likes = 0 keeps likes = 0.  A second 'like'
\* with no 'dislike' in between finds the user in liked_by and changes nothing.
C19_GuardedUpdateNeverBelowZero ==
    [][GuardedLikeUpdate([n \in Nat |-> IF n = 0 THEN 0 ELSE n - 1])]_vars

\* a 'like' that started on a video whose cached liked_by already held the
\* user, after an earlier 'like' of the same video and no 'dislike'
C19_Witness ==
    \E m, n \in DOMAIN mutations :
        /\ m < n
        /\ mutations[m].kind = "like" /\ mutations[n].kind = "like"
        /\ mutations[m].action = "like" /\ mutations[n].action = "like"
        /\ mutations[m].id = mutations[n].id
        /\ ~Includes(mutations[m].videoBefore.liked_by, Me)
        /\ Includes(mutations[n].videoBefore.liked_by, Me)
        /\ mutations[n].videoBefore.likes = mutations[m].videoBefore.likes + 1
        /\ mutations[n].status = "pending"
        /\ danceVideos[mutations[n].id] = mutations[n].videoBefore

\* C18: the rollback of a failed mutation undoes its own optimistic change
\* only: it leaves the cached state of every other video as it is, and on
\* its own video a failed like or unlike leaves the views, and a failed view
\* increment the likes and liked_by, that other mutations have put there.
C18_RollbackUndoesOwnChangeOnly ==
    [][\A m \in DOMAIN mutations :
          Fails(m) =>
              LET id == mutations[m].id
              IN  /\ \A v \in VideoIds \ {id} : danceVideos'[v] = danceVideos[v]
                  /\ mutations[m].kind = "like" =>
                        danceVideos'[id].views = danceVideos[id].views
                  /\ mutations[m].kind = "view" =>
                        /\ danceVideos'[id].likes = danceVideos[id].likes
                        /\ danceVideos'[id].liked_by = danceVideos[id].liked_by]_vars

\* every mutation has settled, the query data is what the last fetch read from
\* the table, and the component has rendered with it
Settled ==
    /\ mutations # <<>>
    /\ \A m \in DOMAIN mutations : mutations[m].status # "pending"
    /\ ~fetching
    /\ danceVideos = videosTable
    /\ ~videosChanged
    /\ rendered = [user |-> user, likedVideos |-> likedVideos, isPending |-> isPending]

\* C20: once the like and unlike mutations have settled, by success or by
\* rollback, a video is in likedVideos exactly if the current user is in its
\* cached liked_by.
C20_LikedVideosAgreeWithCache ==
    (Settled /\ LikeMutations # {}) => likedVideos = userLikedVideoIds(danceVideos, Me)

(***************************************************************************)
(* Properties of the mutations of the home feed.                           *)
(***************************************************************************)
\* mutation m is pending
Pending(m) == m \in DOMAIN mutations /\ mutations[m].status = "pending"

\* mutation m has settled, with a result or with an error
HasSettled(m) == m \in DOMAIN mutations /\ mutations[m].status # "pending"

\* C21: every like/unlike or view mutation that was started settles, whether
\* its remote call succeeds or fails, and the step in which it settles
\* invalidates ['danceVideos'], so that a fetch of it is under way
C21_SettleInvalidates ==
    /\ [][\A m \in DOMAIN mutations :
            Pending(m) /\ mutations'[m].status # "pending" => fetching']_vars
    /\ \A m \in 1..MaxMutations : Pending(m) ~> HasSettled(m)

\* a like mutation and a view mutation have settled, one with a result and one
\* with an error, and the fetch the last of them started is under way
C21_Witness ==
    /\ fetching
    /\ \E m, n \in DOMAIN mutations :
          /\ mutations[m].kind = "like" /\ mutations[n].kind = "view"
          /\ {mutations[m].status, mutations[n].status} = {"success", "error"}

\* the guard of the optimistic update of like mutation m found the cached
\* video already in the state the action asks for, and left the cache as it was
GuardMadeNoOp(m) ==
    likeUpdater(mutations[m].previousVideos, mutations[m].id, mutations[m].action, Me)
        = mutations[m].previousVideos

\* C22: the remote like call is never made for a video the cache already shows
\* as liked by the user, nor the remote unlike call for a video the cache shows
\* as not liked: no like/unlike mutation whose optimistic update was a no-op
\* has had its remote call carried out
C22_NoRemoteCallWhenGuardNoOp ==
    \A m \in LikeMutations : mutations[m].status = "success" => ~GuardMadeNoOp(m)

\* C29: at most one like/unlike mutation of the client is in flight at any
\* time
C29_OneLikeMutationInFlight ==
    Cardinality({ m \in LikeMutations : mutations[m].status = "pending" }) <= 1

\* the view mutations issued for one video
ViewMutationsOf(id) ==
    { m \in DOMAIN mutations : mutations[m].kind = "view" /\ mutations[m].id = id }

\* C23: in one session of the feed at most one view mutation is issued for each
\* video, whatever became of it, and it is issued when the video enters the
\* viewed set
C23_ViewIssuedOncePerVideo ==
    \A id \in VideoIds :
        /\ Cardinality(ViewMutationsOf(id)) <= 1
        /\ id \in viewedVideos <=> ViewMutationsOf(id) # {}

\* a was the top viewable item, its view mutation failed, b was the top
\* viewable item after it, and a is the top viewable item again
C23_Witness ==
    /\ Len(mutations) = 2
    /\ mutations[1].kind = "view" /\ mutations[1].id = "a" /\ mutations[1].status = "error"
    /\ mutations[2].kind = "view" /\ mutations[2].id = "b"
    /\ currentIndex = "a"

\* this step starts a like/unlike mutation
StartsLikeMutation ==
    /\ Len(mutations') = Len(mutations) + 1
    /\ mutations'[Len(mutations')].kind = "like"

\* C24: a like/unlike request made while there is no authenticated user, be it
\* that the component holds no user or that supabase.auth.getUser() answers
\* with none, starts no mutation from the press handler when user is null,
\* never has its remote procedure carried out, and changes neither the cached
\* videos nor likedVideos
C24_NoUserNoRemoteCallNoCacheChange ==
    [][/\ rendered.user = NoUser => ~StartsLikeMutation
       /\ \A m \in LikeMutations :
             Pending(m) /\ session = NoUser => mutations'[m].status # "success"
       /\ StartsLikeMutation /\ (rendered.user = NoUser \/ session = NoUser) =>
             danceVideos' = danceVideos /\ likedVideos' = likedVideos]_vars

\* C24, with the part on cached state for the component without a user: the
\* press handler starts no mutation while the component holds no user, so
\* nothing cached changes; a like/unlike mutation whose remote call finds no
\* user with supabase.auth.getUser() never has its remote procedure carried
\* out; it can only fail, and onError then puts back previousVideos
C24_NoUserNoRemoteCall ==
    [][/\ rendered.user = NoUser => ~StartsLikeMutation
       /\ \A m \in LikeMutations :
             Pending(m) /\ session = NoUser =>
                /\ mutations'[m].status # "success"
                /\ mutations'[m].status = "error" =>
                      /\ videosTable' = videosTable
                      /\ danceVideos' = mutations[m].previousVideos]_vars

\* the user the component holds has pressed the like control of a, the cache
\* shows the optimistic like, and supabase.auth.getUser() answers with no user
C24_Witness ==
    /\ session = NoUser
    /\ rendered.user = Me
    /\ Len(mutations) = 1
    /\ Pending(1) /\ mutations[1].kind = "like" /\ mutations[1].id = "a"
    /\ danceVideos["a"] # mutations[1].previousVideos["a"]

\* C28: the feed is loaded with likes >= 0 for every video, and through every
\* optimistic like/unlike update and every rollback each cached video keeps
\* likes >= 0
C28_CachedLikesNeverNegative ==
    \A v \in VideoIds : danceVideos[v].likes >= 0

\* the user has unliked a video the cache showed with likes 0 and the user in
\* liked_by: likes is still 0
C28_Witness ==
    \E m \in LikeMutations :
        /\ mutations[m].action = "dislike"
        /\ mutations[m].videoBefore.likes = 0
        /\ Includes(mutations[m].videoBefore.liked_by, Me)
        /\ Pending(m)
        /\ danceVideos[mutations[m].id] = [mutations[m].videoBefore EXCEPT !.liked_by = <<>>]

(***************************************************************************)
(* Properties of overlapping runs and of the read of the leaderboard.      *)
(***************************************************************************)
\* invocation r has answered that the leaderboard was updated
Succeeded(r) ==
    /\ pc[r] = "responded"
    /\ response[r].message = "Leaderboard updated successfully"

\* the rows of the table hold each rank 1..n once, for n users with a video,
\* and at most one row for each user
OneRowPerRankAndUser(table, vs) ==
    /\ Len(table) = Cardinality(UserIds(vs))
    /\ \A k \in 1..Len(table) : \E i \in DOMAIN table : table[i].rank = k
    /\ \A i, j \in DOMAIN table :
          OwnerOf(vs, table[i].video_id) = OwnerOf(vs, table[j].video_id) => i = j

\* C26: when two invocations that ran at the same time have both answered
\* that the leaderboard was updated, the leaderboard table holds each rank
\* 1..n exactly once and at most one row for each user, however their deletes
\* and inserts were interleaved
C26_ConcurrentRunsLeaveOneBoard ==
    (\A r \in ConcurrentRuns : Succeeded(r)) => OneRowPerRankAndUser(leaderboard, videos)

\* the rows of the table with rank 1..n
RankedUpTo(table, n) == { table[i] : i \in { j \in DOMAIN table : table[j].rank <= n } }

\* C27: a read of the leaderboard made after a run has answered that the
\* leaderboard was updated returns exactly the rows with rank 1..10 (all rows
\* when there are fewer than ten), also when rows at the cut-off have equal
\* scores
C27_ReadReturnsTopTenRanks ==
    [][leaderBoardDetails' # leaderBoardDetails /\ Succeeded(1) =>
          { leaderBoardDetails'[i] : i \in DOMAIN leaderBoardDetails' }
              = RankedUpTo(leaderboard, ReadLimit)]_vars

(***************************************************************************)
(* Properties of uploadToStorage.  The file extension of a uri is the text *)
(* after its last dot, in lower case, and the whole uri if it has no dot.  *)
(***************************************************************************)
AllowedExtensions ==
    [video |-> {"mp4", "mov", "avi", "mkv"}, image |-> {"jpg", "jpeg", "png", "gif", "webp"}]

\* 40 MB for a video, 5 MB for an image
SizeLimit == [video |-> 41943040, image |-> 5242880]

\* the uri is empty, the extension is not allowed for the type, or the file is
\* larger than the limit of the type
Invalid(call) ==
    \/ call.uri = <<"">>
    \/ toLowerCase(call.uri[Len(call.uri)]) \notin AllowedExtensions[call.type]
    \/ call.size > SizeLimit[call.type]

\* C25: uploadToStorage called with an empty uri, an extension that is not
\* allowed for the type or a file larger than the limit never calls the
\* storage upload and ends with an error; the storage upload is called only
\* when none of the three holds
C25_InvalidFileNeverUploaded ==
    /\ storageUploads > 0 => ~Invalid(uploadArgs)
    /\ Invalid(uploadArgs) => uploadPc \in {"idle", "reading", "thrown"}
    /\ Invalid(uploadArgs) /\ uploadPc = "reading" => uploadArgs.size > SizeLimit[uploadArgs.type]

\* an image of one byte more than 5 MB with an allowed extension: read,
\* rejected for its size, and never uploaded
C25_Witness ==
    /\ uploadArgs = [uri |-> <<"file:///photo", "jpg">>, type |-> "image", size |-> 5242881]
    /\ uploadPc = "thrown"
    /\ uploadResult = "Image size must be less than 5MB"
    /\ storageUploads = 0

(***************************************************************************)
(* Properties of the AI content requests.                                  *)
(***************************************************************************)
\* C30: the step in which an AI content request settles, with a success
\* payload, an error payload or a thrown failure, leaves the generating flag of
\* the type of that request false
C30_SettledRequestClearsItsFlag ==
    [][\A i \in DOMAIN aiRequests :
          aiRequests[i].status = "pending" /\ aiRequests'[i].status # "pending" =>
             IF aiRequests[i].type = "title"
             THEN ~generatingTitle'
             ELSE ~generatingDescription']_vars

====
